---------------------------- MODULE Spec2Model ----------------------------
(***************************************************************************)
(* Model of mhcflurry's imputation utilities (mhcflurry/imputation.py) and *)
(* of the model-selection driver (experiments/nips2015-model-selection.py).*)
(*                                                                         *)
(* Seven specifications share this module:                                 *)
(*   SpecPrune      prune_dense_matrix_and_labels on arbitrary matrices    *)
(*   SpecImpute     create_imputed_datasets, step by step                  *)
(*   SpecRoundTrip  the dense matrix built and converted back              *)
(*   SpecName       imputer_from_name                                      *)
(*   SpecCV         one configuration of the model-selection script        *)
(*   SpecSweep      a sweep of the script over several configurations      *)
(*   SpecGrid       the grid of generate_hyperparameters.py                *)
(* A specification leaves the variables of the other components at their   *)
(* idle values.                                                            *)
(***************************************************************************)
EXTENDS Integers, Sequences, FiniteSets, TLC

VARIABLES
    prune_pc,       \* "call" before prune_dense_matrix_and_labels ran, "done" after
    prune_args,     \* its arguments
    prune_result,   \* the tuple it returned
    imp_pc,             \* position inside create_imputed_datasets
    allele_data_dict,   \* its argument: allele name -> AlleleData
    imputer,            \* its argument: the kind of imputer object passed
    min_observations,   \* its arguments min_observations_per_peptide / _per_allele
    peptide_to_allele_to_affinity_dict,  \* the sparse table built from allele_data_dict
    X_incomplete,       \* the pruned matrix with its peptide_list and allele_list
    complete_calls,     \* the matrices imputer.complete was invoked on, in order
    X_complete,         \* the matrix handed to dense_pMHC_matrix_to_nested_dict
    imputed_datasets,   \* the dictionary create_imputed_datasets returns
    rt_pc,              \* round trip: "table" before, "done" after
    rt_table,           \* round trip: a sparse affinity table
    rt_dense,           \* round trip: the dense matrix materialized from rt_table
    rt_nested,          \* round trip: dense_pMHC_matrix_to_nested_dict of rt_dense
    name_pc,                  \* "call" before imputer_from_name ran, "done" after
    imputation_method_name,   \* the name the caller gives, a sequence of characters
    name_base,                \* the word the caller's name is a spelling of
    name_result,              \* what the call did: raised or returned, and what
    cv_pc,                  \* position in the script: main loop, allele loop, fold loop
    configs,                \* the configurations of the sweep
    args,                   \* the command line: cv_folds, min_samples_per_allele
    predict,                \* what model.predict gives a sample, by the sample's ic50
    csv_data,               \* the allele datasets load_data reads from the CSV file
    config_i,               \* i, the index of the configuration at hand, from 0
    datasets_by_max_ic50,   \* the cache of loaded datasets
    n_loads,                \* calls of load_data so far
    allele_datasets,        \* the datasets in use: the object loaded and what it holds
    weights,                \* the model's weights
    initial_weights,        \* leave_out_allele_cross_validation's copy of the weights
    kfold_initial_weights,  \* kfold_cross_validation_for_single_allele's copy
    allele_queue,           \* the sorted alleles still to visit
    allele_key,             \* the allele at hand, as named in the datasets
    folds,                  \* the test indices of each fold
    cv_iter,                \* folds of the allele done so far
    fold_aucs,              \* the scores of the allele's folds
    fold_accuracies,
    fold_fits,              \* the folds of the allele model.fit was called for
    last_fit,               \* the latest call of model.fit, the weights at its start,
                            \* and what model.predict gave after it
    result_dict,            \* the configuration's result columns
    all_dataframes,         \* the result tables of the configurations done
    results_file,           \* the lines of the results file
    error,                  \* the exception that ended the sweep, if any
    grid_pc,        \* "loop" while the grid is generated, "dumped" after
    axes,           \* the lists the for statements of hyperparrameters_grid run over
    n_yielded,      \* records the generator has yielded so far
    grid            \* the module's list grid

prune_vars == <<prune_pc, prune_args, prune_result>>
impute_vars == <<imp_pc, allele_data_dict, imputer, min_observations,
                 peptide_to_allele_to_affinity_dict, X_incomplete,
                 complete_calls, X_complete, imputed_datasets>>
rt_vars == <<rt_pc, rt_table, rt_dense, rt_nested>>

name_vars == <<name_pc, imputation_method_name, name_base, name_result>>

cv_vars == <<cv_pc, configs, args, predict, csv_data, config_i, datasets_by_max_ic50, n_loads,
             allele_datasets, weights, initial_weights, kfold_initial_weights,
             allele_queue, allele_key, folds, cv_iter, fold_aucs, fold_accuracies,
             fold_fits, last_fit, result_dict, all_dataframes, results_file, error>>
grid_vars == <<grid_pc, axes, n_yielded, grid>>

not_cv_vars == <<prune_vars, impute_vars, rt_vars, name_vars, grid_vars>>
not_grid_vars == <<prune_vars, impute_vars, rt_vars, name_vars, cv_vars>>

vars == <<prune_vars, impute_vars, rt_vars, name_vars, cv_vars, grid_vars>>

(***************************************************************************)
(* Bounds of the model.                                                    *)
(***************************************************************************)
MaxRows == 3          \* rows of a matrix given to the pruning filter
MaxCols == 2          \* columns of a matrix given to the pruning filter
MaxThreshold == 2     \* min_observations_per_peptide / _per_allele range over 0..MaxThreshold

(***************************************************************************)
(* Values of a matrix cell: an observed affinity (a finite float) or NaN.  *)
(***************************************************************************)
NaN == "nan"
Affinities == {"0.25", "0.75"}
CellValues == Affinities \cup {NaN}

isfinite(v) == v # NaN
isnan(v) == v = NaN

(***************************************************************************)
(* Label universes.  PeptideNames and AlleleNames are deliberately not in  *)
(* sorted order.                                                           *)
(***************************************************************************)
PeptideNames == <<"SIINFEKLL", "AAAAAAAAA", "YLLPAIVHI", "GILGFVFTL">>
AlleleLabels == <<"B0702", "A0201", "C0401", "A0101">>

(***************************************************************************)
(* A dense matrix: its shape and its cells.  The shape is kept apart from  *)
(* the cells so that a matrix with zero rows still has its columns, as a   *)
(* numpy array of shape (0, m) does.                                       *)
(***************************************************************************)
Matrix(n, m, cells) ==
    [nrows |-> n, ncols |-> m,
     cell |-> [ij \in (1..n) \X (1..m) |-> cells[ij]]]

\* The matrices of a shape: every pattern of observed cells, each observed
\* cell holding an affinity of its own (the filter reads only finiteness).
ObservedAt ==
    << <<"0.11", "0.12", "0.13", "0.14">>,
       <<"0.21", "0.22", "0.23", "0.24">>,
       <<"0.31", "0.32", "0.33", "0.34">>,
       <<"0.41", "0.42", "0.43", "0.44">> >>

Matrices(n, m) ==
    {Matrix(n, m, [ij \in (1..n) \X (1..m) |->
                    IF ij \in observed THEN ObservedAt[ij[1]][ij[2]] ELSE NaN]) :
        observed \in SUBSET ((1..n) \X (1..m))}

\* np.where(flags)[0]: the indices of the true entries of a boolean array, ascending
where(flags) ==
    LET f[k \in 0..Len(flags)] ==
            IF k = 0 THEN <<>>
            ELSE IF flags[k] THEN Append(f[k - 1], k) ELSE f[k - 1]
    IN  f[Len(flags)]

\* X[keep_peptide_indices]
TakeRows(X, keep) ==
    Matrix(Len(keep), X.ncols,
           [ij \in (1..Len(keep)) \X (1..X.ncols) |-> X.cell[<<keep[ij[1]], ij[2]>>]])

\* X[:, keep_allele_indices]
TakeCols(X, keep) ==
    Matrix(X.nrows, Len(keep),
           [ij \in (1..X.nrows) \X (1..Len(keep)) |-> X.cell[<<ij[1], keep[ij[2]]>>]])

\* the label list returned as it was given
TakeLabelsNoFilter(labels, keep) == labels

\* [labels[i] for i in keep]
TakeLabels(labels, keep) == [i \in 1..Len(keep) |-> labels[keep[i]]]

\* np.isfinite(X).sum(axis=1)[i] and .sum(axis=0)[j]
n_observed_in_row(X, i) == Cardinality({j \in 1..X.ncols : isfinite(X.cell[<<i, j>>])})
n_observed_in_col(X, j) == Cardinality({i \in 1..X.nrows : isfinite(X.cell[<<i, j>>])})

(***************************************************************************)
(* prune_dense_matrix_and_labels.  As in the source, the column counts are *)
(* compared with min_observations_per_peptide and the column drop is       *)
(* guarded by too_few_peptide_observations.any(), the row test.            *)
(***************************************************************************)
prune_dense_matrix_and_labels(X, peptide_list, allele_list, min_observations_per_peptide, min_observations_per_allele) ==
    LET too_few_peptide_observations ==
            [i \in 1..X.nrows |->
                n_observed_in_row(X, i) < min_observations_per_peptide]
        any_peptide == \E i \in 1..X.nrows : too_few_peptide_observations[i]
        keep_peptide_indices ==
            where([i \in 1..X.nrows |-> ~too_few_peptide_observations[i]])
        X1 == IF any_peptide THEN TakeRows(X, keep_peptide_indices) ELSE X
        peptide_list1 ==
            IF any_peptide THEN TakeLabels(peptide_list, keep_peptide_indices)
            ELSE peptide_list
        too_few_allele_observations ==
            [j \in 1..X1.ncols |->
                n_observed_in_col(X1, j) < min_observations_per_peptide]
        keep_allele_indices ==
            where([j \in 1..X1.ncols |-> ~too_few_allele_observations[j]])
        X2 == IF any_peptide THEN TakeCols(X1, keep_allele_indices) ELSE X1
        allele_list1 ==
            IF any_peptide THEN TakeLabels(allele_list, keep_allele_indices)
            ELSE allele_list
    IN  [X |-> X2, peptide_list |-> peptide_list1, allele_list |-> allele_list1]

(***************************************************************************)
(* Dictionaries are functions; a nested dictionary is a function whose     *)
(* values are functions.  An AlleleData object is kept as its two parallel *)
(* arrays original_peptides and Y.                                         *)
(***************************************************************************)
MaxSamples == 2       \* entries of one allele's dataset

Peptides == {PeptideNames[1], PeptideNames[2]}
Alleles == {AlleleLabels[1], AlleleLabels[2]}

EmptyDict == [k \in {} |-> NaN]

AlleleDatas ==
    UNION {
        {[original_peptides |-> ps, Y |-> ys] :
            ps \in [1..n -> Peptides], ys \in [1..n -> Affinities]}
        : n \in 0..MaxSamples}

\* the (outer, inner, value) entries of a nested dictionary
Entries(nested) ==
    UNION {{<<k1, k2, nested[k1][k2]>> : k2 \in DOMAIN nested[k1]} : k1 \in DOMAIN nested}

\* nested[outer][inner] = value on a defaultdict(dict)
SetItem(nested, outer, inner, value) ==
    LET old == IF outer \in DOMAIN nested THEN nested[outer] ELSE EmptyDict
        new == [k \in (DOMAIN old) \cup {inner} |->
                    IF k = inner THEN value ELSE old[k]]
    IN  [k \in (DOMAIN nested) \cup {outer} |->
            IF k = outer THEN new ELSE nested[k]]

\* the keys of a dictionary over the given universe, in the universe's order
KeysInOrder(d, universe) ==
    LET idx == where([k \in 1..Len(universe) |-> universe[k] \in DOMAIN d])
    IN  [i \in 1..Len(idx) |-> universe[idx[i]]]

(***************************************************************************)
(* The body of the loop that builds the sparse table: an affinity is       *)
(* recorded only if the peptide has no entry for that allele yet.          *)
(***************************************************************************)
AddAffinityOverwriting(table, peptide, allele_name, affinity) ==
    SetItem(table, peptide, allele_name, affinity)

AddAffinity(table, peptide, allele_name, affinity) ==
    IF peptide \in DOMAIN table /\ allele_name \in DOMAIN table[peptide]
    THEN table
    ELSE SetItem(table, peptide, allele_name, affinity)

\* for peptide, affinity in zip(allele_data.original_peptides, allele_data.Y)
RECURSIVE AddAlleleData(_, _, _, _)
AddAlleleData(table, allele_name, allele_data, k) ==
    IF k > Len(allele_data.original_peptides) \/ k > Len(allele_data.Y)
    THEN table
    ELSE AddAlleleData(
            AddAffinity(table, allele_data.original_peptides[k], allele_name,
                        allele_data.Y[k]),
            allele_name, allele_data, k + 1)

\* for (allele_name, allele_data) in allele_data_dict.items(); the table does
\* not depend on the order of the items, which write under different alleles
RECURSIVE AddAlleles(_, _, _, _)
AddAlleles(table, data_dict, items, k) ==
    IF k > Len(items) THEN table
    ELSE AddAlleles(AddAlleleData(table, items[k], data_dict[items[k]], 1),
                    data_dict, items, k + 1)

build_sparse_table(data_dict) ==
    AddAlleles(EmptyDict, data_dict, KeysInOrder(data_dict, AlleleLabels), 1)

(***************************************************************************)
(* fancyimpute's dense_matrix_from_nested_dictionary: rows are the outer   *)
(* keys, columns the inner keys of all rows, a cell the recorded value or  *)
(* NaN.  The order of the labels is the library's; the caller of this      *)
(* operator supplies it.                                                   *)
(***************************************************************************)
Orderings(S) ==
    {s \in [1..Cardinality(S) -> S] : \A i, j \in 1..Cardinality(S) : s[i] = s[j] => i = j}

InnerKeys(nested) == UNION {DOMAIN nested[k] : k \in DOMAIN nested}

dense_matrix_from_nested_dictionary(nested, row_labels, col_labels) ==
    [X |-> Matrix(Len(row_labels), Len(col_labels),
                  [ij \in (1..Len(row_labels)) \X (1..Len(col_labels)) |->
                    IF col_labels[ij[2]] \in DOMAIN nested[row_labels[ij[1]]]
                    THEN nested[row_labels[ij[1]]][col_labels[ij[2]]]
                    ELSE NaN]),
     peptide_list |-> row_labels,
     allele_list |-> col_labels]

\* create_incomplete_dense_pMHC_matrix, given the table it built
create_incomplete_dense_pMHC_matrix(table, row_labels, col_labels, min_observations_per_peptide, min_observations_per_allele) ==
    LET dense == dense_matrix_from_nested_dictionary(table, row_labels, col_labels)
    IN  prune_dense_matrix_and_labels(
            dense.X, dense.peptide_list, dense.allele_list,
            min_observations_per_peptide, min_observations_per_allele)

(***************************************************************************)
(* dense_pMHC_matrix_to_nested_dict: the cells are scanned row by row and  *)
(* the finite ones stored under allele, then peptide.                      *)
(***************************************************************************)
StoreCellUnchecked(nested, X, peptide_list, allele_list, row_index, column_index) ==
    SetItem(nested, allele_list[column_index], peptide_list[row_index],
            X.cell[<<row_index, column_index>>])

StoreCell(nested, X, peptide_list, allele_list, row_index, column_index) ==
    LET affinity == X.cell[<<row_index, column_index>>]
    IN  IF isfinite(affinity)
        THEN SetItem(nested, allele_list[column_index], peptide_list[row_index],
                     affinity)
        ELSE nested

RECURSIVE ScanCells(_, _, _, _, _, _)
ScanCells(nested, X, peptide_list, allele_list, row_index, column_index) ==
    IF row_index > Len(peptide_list) THEN nested
    ELSE IF column_index > Len(allele_list)
    THEN ScanCells(nested, X, peptide_list, allele_list, row_index + 1, 1)
    ELSE ScanCells(
            StoreCell(nested, X, peptide_list, allele_list, row_index, column_index),
            X, peptide_list, allele_list, row_index, column_index + 1)

dense_pMHC_matrix_to_nested_dict(X, peptide_list, allele_list) ==
    ScanCells(EmptyDict, X, peptide_list, allele_list, 1, 1)

(***************************************************************************)
(* mhcflurry.data.create_allele_data_from_peptide_to_ic50_dict: the        *)
(* AlleleData of a peptide -> affinity dictionary, its arrays index-aligned.*)
(***************************************************************************)
create_allele_data_from_peptide_to_ic50_dict(allele_dict) ==
    LET peptides == KeysInOrder(allele_dict, PeptideNames)
    IN  [original_peptides |-> peptides,
         Y |-> [i \in 1..Len(peptides) |-> allele_dict[peptides[i]]]]

\* the (allele, peptide, affinity) entries of a dictionary of AlleleData
DatasetEntries(datasets) ==
    UNION {{<<al, datasets[al].original_peptides[i], datasets[al].Y[i]>> :
                i \in 1..Len(datasets[al].original_peptides)}
           : al \in DOMAIN datasets}

\* the (allele, peptide, affinity) entries of the finite cells of a matrix
MatrixEntries(M) ==
    {<<M.allele_list[ij[2]], M.peptide_list[ij[1]], M.X.cell[ij]>> :
        ij \in {c \in DOMAIN M.X.cell : isfinite(M.X.cell[c])}}

(***************************************************************************)
(* The imputer argument.  An imputer object's complete(X) either raises or *)
(* returns a matrix of X's shape that keeps the observed cells and puts,   *)
(* in each missing cell, an estimate or NaN.  "absent" is the None that    *)
(* imputer_from_name("none") returns.                                      *)
(***************************************************************************)
ImputerKinds == {"absent", "failing", "working"}
ImputedValues == {"0.5", NaN}

n_nan(X) == Cardinality({ij \in DOMAIN X.cell : isnan(X.cell[ij])})

CompleteOutputs(X) ==
    {[nrows |-> X.nrows, ncols |-> X.ncols, cell |-> c] :
        c \in {f \in [DOMAIN X.cell -> CellValues \cup ImputedValues] :
                 \A ij \in DOMAIN X.cell :
                    IF isnan(X.cell[ij]) THEN f[ij] \in ImputedValues
                    ELSE f[ij] = X.cell[ij]}}

(***************************************************************************)
(* imputer_from_name.  A string is a sequence of characters.               *)
(***************************************************************************)
MaxPad == 1           \* whitespace characters on either side of a method name

LowerCase == <<"a", "b", "c", "d", "e", "f", "g", "h", "i", "j", "k", "l", "m", "n", "o", "p", "q", "r", "s", "t", "u", "v", "w", "x", "y", "z">>
UpperCase == <<"A", "B", "C", "D", "E", "F", "G", "H", "I", "J", "K", "L", "M", "N", "O", "P", "Q", "R", "S", "T", "U", "V", "W", "X", "Y", "Z">>
Whitespace == {" ", "\t", "\n", "\r"}

\* str.lower() and str.upper() on one character
lower_char(c) ==
    IF \E k \in 1..Len(UpperCase) : UpperCase[k] = c
    THEN LowerCase[CHOOSE k \in 1..Len(UpperCase) : UpperCase[k] = c]
    ELSE c

upper_char(c) ==
    IF \E k \in 1..Len(LowerCase) : LowerCase[k] = c
    THEN UpperCase[CHOOSE k \in 1..Len(LowerCase) : LowerCase[k] = c]
    ELSE c

\* the name with its letter case left as given
lower_unchanged(str) == str

lower(str) == [i \in 1..Len(str) |-> lower_char(str[i])]

\* str.strip(): leading and trailing whitespace removed
RECURSIVE lstrip(_)
lstrip(str) ==
    IF str # <<>> /\ Head(str) \in Whitespace THEN lstrip(Tail(str)) ELSE str

RECURSIVE rstrip(_)
rstrip(str) ==
    IF str # <<>> /\ str[Len(str)] \in Whitespace
    THEN rstrip(SubSeq(str, 1, Len(str) - 1))
    ELSE str

strip(str) == rstrip(lstrip(str))

\* whether text contains str as a substring
Contains(text, str) ==
    \E i \in 0..(Len(text) - Len(str)) : SubSeq(text, i + 1, i + Len(str)) = str

MethodNames ==
    {<<"m", "i", "c", "e">>,
     <<"k", "n", "n">>,
     <<"s", "v", "d">>,
     <<"s", "v", "t">>,
     <<"s", "o", "f", "t", "i", "m", "p", "u", "t", "e">>,
     <<"m", "e", "a", "n">>,
     <<"n", "o", "n", "e">>}

InvalidMethodMessage == <<"I", "n", "v", "a", "l", "i", "d", " ", "i", "m", "p", "u", "t", "a", "t", "i", "o", "n", " ", "m", "e", "t", "h", "o", "d", ":", " ">>

\* kwargs[key] = kwargs.get(key, default)
WithDefault(kwargs, key, default) ==
    IF key \in DOMAIN kwargs THEN kwargs
    ELSE [k \in (DOMAIN kwargs) \cup {key} |-> IF k = key THEN default ELSE kwargs[k]]

Returned(class, kwargs) ==
    [raised |-> FALSE, message |-> <<>>, class |-> class, kwargs |-> kwargs]

imputer_from_name(method_name, kwargs) ==
    LET name == lower(strip(method_name))
    IN  IF name = <<"m", "i", "c", "e">>
        THEN Returned("MICE",
                WithDefault(WithDefault(WithDefault(WithDefault(kwargs,
                    "n_burn_in", 5), "n_imputations", 25), "min_value", 0),
                    "max_value", 1))
        ELSE IF name = <<"k", "n", "n">>
        THEN Returned("KNN",
                WithDefault(WithDefault(WithDefault(kwargs,
                    "k", 3), "orientation", "columns"), "print_interval", 10))
        ELSE IF name = <<"s", "v", "d">>
        THEN Returned("IterativeSVD", WithDefault(kwargs, "rank", 10))
        ELSE IF name = <<"s", "v", "t">> \/ name = <<"s", "o", "f", "t", "i", "m", "p", "u", "t", "e">>
        THEN Returned("SoftImpute", kwargs)
        ELSE IF name = <<"m", "e", "a", "n">>
        THEN Returned("SimpleFill",
                [k \in (DOMAIN kwargs) \cup {"fill_method"} |->
                    IF k = "fill_method" THEN "mean" ELSE kwargs[k]])
        ELSE IF name = <<"n", "o", "n", "e">>
        THEN Returned("None", EmptyDict)
        ELSE [raised |-> TRUE, message |-> InvalidMethodMessage \o name,
              class |-> "", kwargs |-> EmptyDict]

(***************************************************************************)
(* The model-selection script.  An allele name is a sequence of            *)
(* characters; a dataset is kept as its ic50 array (X and Y are parallel   *)
(* to it).                                                                 *)
(***************************************************************************)
MaxAlleleSamples == 4     \* samples of one allele's dataset

Digits == {"0", "1", "2", "3", "4", "5", "6", "7", "8", "9"}

\* the characters of allele names, in code point order
CodePointOrder == <<"*", "-", "0", "1", "2", "3", "4", "5", "6", "7", "8", "9", ":", "A", "B", "C", "D", "E", "F", "G", "H", "I", "J", "K", "L", "M", "N", "O", "P", "Q", "R", "S", "T", "U", "V", "W", "X", "Y", "Z">>

CodePoint(c) == CHOOSE k \in 1..Len(CodePointOrder) : CodePointOrder[k] = c

\* str < str of Python: by code points, a proper prefix first
RECURSIVE StrLess(_, _)
StrLess(s, t) ==
    IF t = <<>> THEN FALSE
    ELSE IF s = <<>> THEN TRUE
    ELSE IF Head(s) # Head(t) THEN CodePoint(Head(s)) < CodePoint(Head(t))
    ELSE StrLess(Tail(s), Tail(t))

\* sorted(allele_datasets.items(), key=lambda pair: pair[0]), the keys of it
sorted_names(names) ==
    CHOOSE order \in Orderings(names) :
        \A a, b \in 1..Len(order) : a < b => StrLess(order[a], order[b])

\* allele_name.isdigit()
isdigit(name) == name # <<>> /\ \A k \in 1..Len(name) : name[k] \in Digits

\* mhcflurry.common.normalize_allele_name: "HLA-A*02:01" and "A0201" name
\* the same allele; the species prefix and the separators are dropped
RECURSIVE WithoutSeparators(_)
WithoutSeparators(name) ==
    IF name = <<>> THEN <<>>
    ELSE IF Head(name) \in {"-", "*", ":"} THEN WithoutSeparators(Tail(name))
    ELSE <<Head(name)>> \o WithoutSeparators(Tail(name))

normalize_allele_name(name) ==
    IF Len(name) >= 4 /\ SubSeq(name, 1, 4) = <<"H", "L", "A", "-">>
    THEN WithoutSeparators(SubSeq(name, 5, Len(name)))
    ELSE WithoutSeparators(name)

\* label = ic50 <= 500
is_binder(ic50) == ic50 <= 500

Ic50Values == {500, 5000}

Datasets ==
    UNION {{[ic50 |-> v] : v \in [1..n -> Ic50Values]} : n \in 1..MaxAlleleSamples}

n_samples_of(dataset) == Len(dataset.ic50)

(***************************************************************************)
(* sklearn's KFold(n, n_folds, shuffle=True, random_state=0): the indices  *)
(* are shuffled by a permutation fixed by the seed (the reversal stands    *)
(* for it: every ic50 sequence is an input, so every assignment of labels  *)
(* to folds occurs), then cut into n_folds consecutive folds, the first    *)
(* n mod n_folds of them one longer.  It raises when n_folds > n.          *)
(***************************************************************************)
shuffled(n) == [k \in 1..n |-> n + 1 - k]

fold_size(n, n_folds, f) == (n \div n_folds) + (IF f <= n % n_folds THEN 1 ELSE 0)

RECURSIVE fold_start(_, _, _)
fold_start(n, n_folds, f) ==
    IF f = 1 THEN 0 ELSE fold_start(n, n_folds, f - 1) + fold_size(n, n_folds, f - 1)

\* the test indices of each fold
KFold(n, n_folds) ==
    [f \in 1..n_folds |->
        {shuffled(n)[k] : k \in (fold_start(n, n_folds, f) + 1) ..
                               (fold_start(n, n_folds, f) + fold_size(n, n_folds, f))}]

KFoldRaises(n, n_folds) == n_folds > n \/ n_folds <= 1

\* label_test.all() or not label_test.any(), from the test labels
all_same_only_all(ic50, test_idx) == \A t \in test_idx : is_binder(ic50[t])

all_same(ic50, test_idx) ==
    \/ \A t \in test_idx : is_binder(ic50[t])
    \/ ~ \E t \in test_idx : is_binder(ic50[t])

(***************************************************************************)
(* The model's weights: which model they belong to (the configuration it   *)
(* was built for) and the fits applied since it was built.                 *)
(***************************************************************************)
(***************************************************************************)
(* model.predict gives one value in [0, 1] for each held-out sample, here  *)
(* in tenths and the same for samples of the same ic50.  x ** y <= z is    *)
(* decided as y * log x <= log z, the decimal logarithms in thousandths.   *)
(***************************************************************************)
Predictions == {1, 3}

log10_thousandths(x) ==
    CASE x = 500 -> 2699
      [] x = 5000 -> 3699
      [] x = 50000 -> 4699

\* base ** (1.0 - pred) <= 500
ic50_pred_is_binder(base, pred) ==
    (10 - pred) * log10_thousandths(base) <= 10 * log10_thousandths(500)

\* lines 186-187: np.mean(label_test == (5000 ** (1.0 - pred) <= 500)), as
\* the number of equal labels and the number of labels
accuracy(ic50, test_idx, pred) ==
    [equal |-> Cardinality({t \in test_idx :
                    is_binder(ic50[t]) = ic50_pred_is_binder(5000, pred[t])}),
     of |-> Cardinality(test_idx)]

FreshWeights(config_idx) == [config_idx |-> config_idx, trained |-> <<>>]

\* model.fit: the weights after training on the given data
fit(w, what) == [w EXCEPT !.trained = Append(@, what)]

\* model.set_weights(saved) left out
set_weights_ignored(current, saved) == current

\* model.set_weights(saved)
set_weights(current, saved) == saved

(***************************************************************************)
(* The result table of one configuration: twelve columns, one list each.   *)
(***************************************************************************)
ResultColumns ==
    {"allele_name", "dataset_size",
     "auc_mean", "auc_median", "auc_std", "auc_min", "auc_max",
     "accuracy_mean", "accuracy_median", "accuracy_std", "accuracy_min",
     "accuracy_max"}

EmptyResultDict == [c \in ResultColumns |-> <<>>]

\* the value appended to a column for an allele
ColumnValue(c, allele_name, n_samples, aucs, accuracies) ==
    IF c = "allele_name" THEN allele_name
    ELSE IF c = "dataset_size" THEN n_samples
    ELSE IF c \in {"auc_mean", "auc_median", "auc_std", "auc_min", "auc_max"}
    THEN aucs
    ELSE accuracies

\* lines 292-299: one value appended to every column
append_row(result, allele_name, n_samples, aucs, accuracies) ==
    [c \in ResultColumns |->
        Append(result[c], ColumnValue(c, allele_name, n_samples, aucs, accuracies))]

\* a row appended whatever the number of scored folds
aggregate_always(result, allele_name, n_samples, aucs, accuracies) ==
    append_row(result, allele_name, n_samples, aucs, accuracies)

\* lines 289-299: if len(aucs) == 0: continue
aggregate(result, allele_name, n_samples, aucs, accuracies) ==
    IF Len(aucs) = 0 THEN result
    ELSE append_row(result, allele_name, n_samples, aucs, accuracies)

\* len(result_df)
n_rows_of(result) == Len(result["allele_name"])

(***************************************************************************)
(* result_df.to_csv(f, index=False): a header line, then one line per row, *)
(* each tagged with config_idx.                                            *)
(***************************************************************************)
HeaderLine == [kind |-> "header", config_idx |-> -1, allele_name |-> <<>>]

to_csv(result, config_idx) ==
    <<HeaderLine>> \o
    [k \in 1..n_rows_of(result) |->
        [kind |-> "row", config_idx |-> config_idx,
         allele_name |-> result["allele_name"][k]]]

\* with open(args.results_filename, "a" if i > 0 else "w") as f
write_results(file, result, config_idx) ==
    IF config_idx > 0 THEN file \o to_csv(result, config_idx)
    ELSE to_csv(result, config_idx)

(***************************************************************************)
(* generate_hyperparameters.py: the nested enumeration of the axes and the *)
(* loop that keeps the records not yet in the grid.  Floats are written as *)
(* strings, lists and tuples as sequences.  The lists of the for           *)
(* statements are the value of axes, so that the loop can also be followed *)
(* on lists in which a value comes twice.                                  *)
(***************************************************************************)
MaxRepeatedAxes == 2      \* axes whose list holds one value twice

base_hyperparameters ==
    [convolutional_filters |-> 64,
     convolutional_kernel_size |-> 8,
     convolutional_kernel_l1_l2 |-> <<"0.0", "0.0">>,
     flanking_averages |-> TRUE,
     n_flank_length |-> 15,
     c_flank_length |-> 15,
     post_convolutional_dense_layer_sizes |-> <<>>,
     minibatch_size |-> 512,
     dropout_rate |-> "0.5",
     convolutional_activation |-> "relu",
     patience |-> 20,
     learning_rate |-> "0.001"]

\* the for statements, outermost first
AxisOrder ==
    <<"learning_rate", "convolutional_activation", "convolutional_filters",
      "flanking_averages", "convolutional_kernel_size", "l1", "s", "d">>

\* the lists the for statements run over
CodeAxes ==
    [learning_rate |-> <<"0.001">>,
     convolutional_activation |-> <<"tanh", "relu">>,
     convolutional_filters |-> <<256, 512>>,
     flanking_averages |-> <<TRUE>>,
     convolutional_kernel_size |-> <<11, 13, 15, 17>>,
     l1 |-> <<"0.0", "1e-06">>,
     s |-> << <<8>>, <<16>> >>,
     d |-> <<"0.3", "0.5">>]

AxisNames == {AxisOrder[p] : p \in 1..Len(AxisOrder)}

\* the lists of the code, those of the axes in repeated with the value at
\* the given index once more at the end
AxesWithRepeats(repeated) ==
    [name \in AxisNames |->
        IF name \in DOMAIN repeated
        THEN Append(CodeAxes[name], CodeAxes[name][repeated[name]])
        ELSE CodeAxes[name]]

\* iterations of the loops from position p inwards
RECURSIVE n_iterations(_, _)
n_iterations(lists, p) ==
    IF p > Len(AxisOrder) THEN 1
    ELSE Len(lists[AxisOrder[p]]) * n_iterations(lists, p + 1)

\* the value the loop at position p is at in iteration k, from 0
loop_value(lists, p, k) ==
    lists[AxisOrder[p]][((k \div n_iterations(lists, p + 1)) % Len(lists[AxisOrder[p]])) + 1]

\* lines 26-44: the record yielded in iteration k, from 0
hyperparrameters_grid(lists, k) ==
    [base_hyperparameters EXCEPT
        !.learning_rate = loop_value(lists, 1, k),
        !.convolutional_activation = loop_value(lists, 2, k),
        !.convolutional_filters = loop_value(lists, 3, k),
        !.flanking_averages = loop_value(lists, 4, k),
        !.convolutional_kernel_size = loop_value(lists, 5, k),
        !.convolutional_kernel_l1_l2 = <<loop_value(lists, 6, k), "0.0">>,
        !.post_convolutional_dense_layer_sizes = loop_value(lists, 7, k),
        !.dropout_rate = loop_value(lists, 8, k)]

\* only the record appended last is compared
contains_last_only(records, candidate) ==
    records # <<>> /\ records[Len(records)] = candidate

\* line 48: new in grid
contains(records, candidate) ==
    \E k \in 1..Len(records) : records[k] = candidate

(***************************************************************************)
(* Idle values: what a component's variables hold in the specifications of *)
(* the other components.                                                   *)
(***************************************************************************)
NoMatrix == Matrix(0, 0, <<>>)
NoLabelled == [X |-> NoMatrix, peptide_list |-> <<>>, allele_list |-> <<>>]

IdlePrune ==
    /\ prune_pc = "idle"
    /\ prune_args = [X |-> NoMatrix, peptide_list |-> <<>>, allele_list |-> <<>>,
                     min_observations_per_peptide |-> 1,
                     min_observations_per_allele |-> 1]
    /\ prune_result = NoLabelled

IdleImpute ==
    /\ imp_pc = "idle"
    /\ allele_data_dict = EmptyDict
    /\ imputer = "absent"
    /\ min_observations = [per_peptide |-> 1, per_allele |-> 1]
    /\ peptide_to_allele_to_affinity_dict = EmptyDict
    /\ X_incomplete = NoLabelled
    /\ complete_calls = <<>>
    /\ X_complete = NoMatrix
    /\ imputed_datasets = EmptyDict

IdleRoundTrip ==
    /\ rt_pc = "idle"
    /\ rt_table = EmptyDict
    /\ rt_dense = NoLabelled
    /\ rt_nested = EmptyDict

NoNameResult == [raised |-> FALSE, message |-> <<>>, class |-> "", kwargs |-> EmptyDict]

IdleName ==
    /\ name_pc = "idle"
    /\ imputation_method_name = <<>>
    /\ name_base = <<>>
    /\ name_result = NoNameResult

(***************************************************************************)
(* The sweep of the script's main block, with evaluate_model_config,       *)
(* leave_out_allele_cross_validation and                                   *)
(* kfold_cross_validation_for_single_allele inlined where they are called. *)
(* leave_out_allele_cross_validation reads the script's globals            *)
(* allele_datasets and config, which the main loop assigns.                *)
(***************************************************************************)
MaxConfigs == 3           \* configurations of a sweep

Configs == [n_pretrain_epochs : {0, 10}, max_ic50 : {5000, 50000}]

ValidNames == {<<"B", "0", "7", "0", "2">>, <<"H", "L", "A", "-", "A", "0", "2", "0", "1">>}
SkippedNames == {<<"1", "2", "3", "4", "5">>, <<"B", "7">>}

NoWeights == [config_idx |-> -1, trained |-> <<>>]
NoFit ==
    [kind |-> "none", config_idx |-> -1, allele |-> <<>>, cv_iter |-> -1,
     weights_at_call |-> NoWeights, test_idx |-> {}, pred |-> <<>>]
NoDatasets == [id |-> 0, data |-> EmptyDict]

IdleCV ==
    /\ cv_pc = "idle"
    /\ configs = <<>>
    /\ args = [cv_folds |-> 5, min_samples_per_allele |-> 5]
    /\ predict = [v \in Ic50Values |-> 9]
    /\ csv_data = EmptyDict
    /\ config_i = 0
    /\ datasets_by_max_ic50 = EmptyDict
    /\ n_loads = 0
    /\ allele_datasets = NoDatasets
    /\ weights = NoWeights
    /\ initial_weights = NoWeights
    /\ kfold_initial_weights = NoWeights
    /\ allele_queue = <<>>
    /\ allele_key = <<>>
    /\ folds = <<>>
    /\ cv_iter = 0
    /\ fold_aucs = <<>>
    /\ fold_accuracies = <<>>
    /\ fold_fits = <<>>
    /\ last_fit = NoFit
    /\ result_dict = EmptyResultDict
    /\ all_dataframes = <<>>
    /\ results_file = <<>>
    /\ error = "none"

IdleGrid ==
    /\ grid_pc = "idle"
    /\ axes = CodeAxes
    /\ n_yielded = 0
    /\ grid = <<>>

(***************************************************************************)
(* SpecPrune: the pruning filter applied to every matrix within the bounds.*)
(***************************************************************************)
InitPrune ==
    /\ prune_pc = "call"
    /\ \E n \in 1..MaxRows, m \in 1..MaxCols :
         \E X \in Matrices(n, m), p \in 0..MaxThreshold, a \in 0..MaxThreshold :
            prune_args = [X |-> X,
                          peptide_list |-> SubSeq(PeptideNames, 1, n),
                          allele_list |-> SubSeq(AlleleLabels, 1, m),
                          min_observations_per_peptide |-> p,
                          min_observations_per_allele |-> a]
    /\ prune_result = NoLabelled
    /\ IdleImpute
    /\ IdleRoundTrip
    /\ IdleName
    /\ IdleCV
    /\ IdleGrid

Prune ==
    /\ prune_pc = "call"
    /\ prune_pc' = "done"
    /\ prune_result' = prune_dense_matrix_and_labels(
            prune_args.X, prune_args.peptide_list, prune_args.allele_list,
            prune_args.min_observations_per_peptide,
            prune_args.min_observations_per_allele)
    /\ UNCHANGED <<prune_args, impute_vars, rt_vars, name_vars, cv_vars, grid_vars>>

NextPrune == Prune

SpecPrune == InitPrune /\ [][NextPrune]_vars

(***************************************************************************)
(* SpecImpute: create_imputed_datasets, in three steps: the matrix is      *)
(* built and pruned, completed (or passed through), and converted back to  *)
(* per-allele datasets.  The datasets given hold at least one entry.       *)
(***************************************************************************)
ImputeThresholds == {1, 2}    \* 1 is the default of both thresholds

AlleleDataDicts ==
    UNION {[S -> AlleleDatas] : S \in SUBSET Alleles}

InitImpute ==
    /\ imp_pc = "start"
    /\ allele_data_dict \in AlleleDataDicts
    /\ \E al \in DOMAIN allele_data_dict : Len(allele_data_dict[al].Y) > 0
    /\ imputer \in ImputerKinds
    /\ min_observations \in [per_peptide : ImputeThresholds, per_allele : ImputeThresholds]
    /\ peptide_to_allele_to_affinity_dict = EmptyDict
    /\ X_incomplete = NoLabelled
    /\ complete_calls = <<>>
    /\ X_complete = NoMatrix
    /\ imputed_datasets = EmptyDict
    /\ IdlePrune
    /\ IdleRoundTrip
    /\ IdleName
    /\ IdleCV
    /\ IdleGrid

\* X_incomplete, peptide_list, allele_list = create_incomplete_dense_pMHC_matrix(...)
BuildIncomplete ==
    /\ imp_pc = "start"
    /\ LET table == build_sparse_table(allele_data_dict)
       IN  /\ peptide_to_allele_to_affinity_dict' = table
           /\ \E row_labels \in Orderings(DOMAIN table),
                 col_labels \in Orderings(InnerKeys(table)) :
                X_incomplete' = create_incomplete_dense_pMHC_matrix(
                    table, row_labels, col_labels,
                    min_observations.per_peptide, min_observations.per_allele)
    /\ imp_pc' = "pruned"
    /\ UNCHANGED <<allele_data_dict, imputer, min_observations, complete_calls,
                   X_complete, imputed_datasets, prune_vars, rt_vars, name_vars, cv_vars, grid_vars>>

\* if np.isnan(X_incomplete).sum() == 0: X_complete = X_incomplete
PassThrough ==
    /\ imp_pc = "pruned"
    /\ n_nan(X_incomplete.X) = 0
    /\ X_complete' = X_incomplete.X
    /\ imp_pc' = "completed"
    /\ UNCHANGED <<allele_data_dict, imputer, min_observations,
                   peptide_to_allele_to_affinity_dict, X_incomplete,
                   complete_calls, imputed_datasets, prune_vars, rt_vars, name_vars, cv_vars, grid_vars>>

\* the else branch taken whatever the matrix holds
CompleteRegardless ==
    /\ imp_pc = "pruned"
    /\ \/ /\ imputer = "absent"
          /\ imp_pc' = "error"
          /\ UNCHANGED <<complete_calls, X_complete>>
       \/ /\ imputer = "failing"
          /\ complete_calls' = Append(complete_calls, X_incomplete.X)
          /\ imp_pc' = "error"
          /\ UNCHANGED X_complete
       \/ /\ imputer = "working"
          /\ complete_calls' = Append(complete_calls, X_incomplete.X)
          /\ X_complete' \in CompleteOutputs(X_incomplete.X)
          /\ imp_pc' = "completed"
    /\ UNCHANGED <<allele_data_dict, imputer, min_observations,
                   peptide_to_allele_to_affinity_dict, X_incomplete,
                   imputed_datasets, prune_vars, rt_vars, name_vars, cv_vars, grid_vars>>

\* else: X_complete = imputer.complete(X_incomplete)
Complete ==
    /\ imp_pc = "pruned"
    /\ n_nan(X_incomplete.X) # 0
    /\ \/ /\ imputer = "absent"        \* None has no attribute complete
          /\ imp_pc' = "error"
          /\ UNCHANGED <<complete_calls, X_complete>>
       \/ /\ imputer = "failing"       \* the call is made and raises
          /\ complete_calls' = Append(complete_calls, X_incomplete.X)
          /\ imp_pc' = "error"
          /\ UNCHANGED X_complete
       \/ /\ imputer = "working"
          /\ complete_calls' = Append(complete_calls, X_incomplete.X)
          /\ X_complete' \in CompleteOutputs(X_incomplete.X)
          /\ imp_pc' = "completed"
    /\ UNCHANGED <<allele_data_dict, imputer, min_observations,
                   peptide_to_allele_to_affinity_dict, X_incomplete,
                   imputed_datasets, prune_vars, rt_vars, name_vars, cv_vars, grid_vars>>

\* lines 193-201: back to a nested dictionary, then one AlleleData per allele
imputed_from(X, peptide_list, allele_list) ==
    LET allele_to_peptide_to_affinity_dict ==
            dense_pMHC_matrix_to_nested_dict(X, peptide_list, allele_list)
    IN  [allele_name \in DOMAIN allele_to_peptide_to_affinity_dict |->
            create_allele_data_from_peptide_to_ic50_dict(
                allele_to_peptide_to_affinity_dict[allele_name])]

Convert ==
    /\ imp_pc = "completed"
    /\ imputed_datasets' = imputed_from(X_complete, X_incomplete.peptide_list,
                                        X_incomplete.allele_list)
    /\ imp_pc' = "done"
    /\ UNCHANGED <<allele_data_dict, imputer, min_observations,
                   peptide_to_allele_to_affinity_dict, X_incomplete,
                   complete_calls, X_complete, prune_vars, rt_vars, name_vars, cv_vars, grid_vars>>

NextImpute == BuildIncomplete \/ PassThrough \/ Complete \/ Convert

SpecImpute == InitImpute /\ [][NextImpute]_vars

(***************************************************************************)
(* SpecRoundTrip: a sparse affinity table is materialized as a dense       *)
(* matrix and converted back.  A table is a dictionary peptide -> allele   *)
(* -> affinity; a dictionary holds a key once, so no (peptide, allele)     *)
(* pair is duplicated, and a peptide that is a key has an entry.           *)
(***************************************************************************)
RoundTripPeptides == {PeptideNames[1], PeptideNames[2], PeptideNames[3]}

AlleleDicts == UNION {[S -> Affinities] : S \in (SUBSET Alleles) \ {{}}}
SparseTables == UNION {[S -> AlleleDicts] : S \in (SUBSET RoundTripPeptides) \ {{}}}

InitRoundTrip ==
    /\ rt_pc = "table"
    /\ rt_table \in SparseTables
    /\ rt_dense = NoLabelled
    /\ rt_nested = EmptyDict
    /\ IdlePrune
    /\ IdleImpute
    /\ IdleName
    /\ IdleCV
    /\ IdleGrid

RoundTrip ==
    /\ rt_pc = "table"
    /\ \E row_labels \in Orderings(DOMAIN rt_table),
          col_labels \in Orderings(InnerKeys(rt_table)) :
          LET dense == dense_matrix_from_nested_dictionary(
                            rt_table, row_labels, col_labels)
          IN  /\ rt_dense' = dense
              /\ rt_nested' = dense_pMHC_matrix_to_nested_dict(
                                dense.X, dense.peptide_list, dense.allele_list)
    /\ rt_pc' = "done"
    /\ UNCHANGED <<rt_table, prune_vars, impute_vars, name_vars, cv_vars, grid_vars>>

NextRoundTrip == RoundTrip

SpecRoundTrip == InitRoundTrip /\ [][NextRoundTrip]_vars

(***************************************************************************)
(* SpecName: imputer_from_name called with spellings of method names and   *)
(* of other words: a word, some of its letters in upper case, whitespace   *)
(* on either side.                                                         *)
(***************************************************************************)
OtherWords ==
    {<<>>,
     <<"b", "o", "g", "u", "s">>,
     <<"m", "i", "c">>,
     <<"k", " ", "n", "n">>,
     <<"m", "e", "a", "n", "n">>,
     <<"s", "v", "d", "2">>}

Pads == UNION {[1..n -> {" ", "\t"}] : n \in 0..MaxPad}

Spelling(word, upper_at, left, right) ==
    left \o [i \in 1..Len(word) |->
                IF i \in upper_at THEN upper_char(word[i]) ELSE word[i]] \o right

InitName ==
    /\ name_pc = "call"
    /\ name_base \in MethodNames \cup OtherWords
    /\ \E upper_at \in SUBSET (1..Len(name_base)), left \in Pads, right \in Pads :
          imputation_method_name = Spelling(name_base, upper_at, left, right)
    /\ name_result = NoNameResult
    /\ IdlePrune
    /\ IdleImpute
    /\ IdleRoundTrip
    /\ IdleCV
    /\ IdleGrid

CallImputerFromName ==
    /\ name_pc = "call"
    /\ name_result' = imputer_from_name(imputation_method_name, EmptyDict)
    /\ name_pc' = "done"
    /\ UNCHANGED <<imputation_method_name, name_base, prune_vars, impute_vars, rt_vars, cv_vars, grid_vars>>

NextName == CallImputerFromName

SpecName == InitName /\ [][NextName]_vars

\* the state when the main loop is entered, but for the inputs
InitMain ==
    /\ cv_pc = "main"
    /\ config_i = 0
    /\ datasets_by_max_ic50 = EmptyDict
    /\ n_loads = 0
    /\ allele_datasets = NoDatasets
    /\ weights = NoWeights
    /\ initial_weights = NoWeights
    /\ kfold_initial_weights = NoWeights
    /\ allele_queue = <<>>
    /\ allele_key = <<>>
    /\ folds = <<>>
    /\ cv_iter = 0
    /\ fold_aucs = <<>>
    /\ fold_accuracies = <<>>
    /\ fold_fits = <<>>
    /\ last_fit = NoFit
    /\ result_dict = EmptyResultDict
    /\ all_dataframes = <<>>
    /\ error = "none"
    /\ IdlePrune
    /\ IdleImpute
    /\ IdleRoundTrip
    /\ IdleName
    /\ IdleGrid

\* the configuration being evaluated and the dataset of the allele at hand
config == configs[config_i + 1]
next_allele == Head(allele_queue)
next_dataset == allele_datasets.data[next_allele]
dataset == allele_datasets.data[allele_key]

\* lines 248-257: the allele is passed over
skipped(name, n_samples, min_samples_per_allele) ==
    \/ isdigit(name)
    \/ Len(name) < 5
    \/ n_samples < min_samples_per_allele

\* a dataset is loaded for every configuration
never_in_cache(cache, max_ic50) == FALSE

\* line 349: config.max_ic50 in datasets_by_max_ic50
in_cache(cache, max_ic50) == max_ic50 \in DOMAIN cache

\* lines 346-362, 308-333, 230-246: the datasets are loaded or taken from the
\* cache, the model is built, its weights captured, the alleles sorted
StartConfig ==
    /\ cv_pc = "main"
    /\ config_i < Len(configs)
    /\ LET cached == in_cache(datasets_by_max_ic50, config.max_ic50)
           loaded == [id |-> n_loads + 1, data |-> csv_data]
           found == IF cached THEN datasets_by_max_ic50[config.max_ic50] ELSE loaded
       IN  /\ n_loads' = IF cached THEN n_loads ELSE n_loads + 1
           /\ datasets_by_max_ic50' =
                [c \in (DOMAIN datasets_by_max_ic50) \cup {config.max_ic50} |->
                    IF c = config.max_ic50 THEN found ELSE datasets_by_max_ic50[c]]
           /\ allele_datasets' = found
           /\ allele_queue' = sorted_names(DOMAIN found.data)
    /\ weights' = FreshWeights(config_i)
    /\ initial_weights' = FreshWeights(config_i)
    /\ result_dict' = EmptyResultDict
    /\ cv_pc' = "alleles"
    /\ UNCHANGED <<configs, args, predict, csv_data, config_i, kfold_initial_weights, allele_key,
                   folds, cv_iter, fold_aucs, fold_accuracies, fold_fits, last_fit,
                   all_dataframes, results_file, error, not_cv_vars>>

\* lines 248-257: continue
SkipAllele ==
    /\ cv_pc = "alleles"
    /\ allele_queue # <<>>
    /\ skipped(next_allele, n_samples_of(next_dataset), args.min_samples_per_allele)
    /\ allele_queue' = Tail(allele_queue)
    /\ UNCHANGED <<cv_pc, configs, args, predict, csv_data, config_i, datasets_by_max_ic50, n_loads,
                   allele_datasets, weights, initial_weights, kfold_initial_weights,
                   allele_key, folds, cv_iter, fold_aucs, fold_accuracies, fold_fits,
                   last_fit, result_dict, all_dataframes, results_file, error,
                   not_cv_vars>>

\* lines 262-274 with n_pretrain_epochs > 0: the weights are reset, then the
\* pooling raises: np.vstack of no arrays when no other allele is loaded,
\* else other_allele.Y, other_allele being the name, a string
PretrainRaises ==
    /\ cv_pc = "alleles"
    /\ allele_queue # <<>>
    /\ ~skipped(next_allele, n_samples_of(next_dataset), args.min_samples_per_allele)
    /\ config.n_pretrain_epochs > 0
    /\ weights' = set_weights(weights, initial_weights)
    /\ allele_key' = next_allele
    /\ allele_queue' = Tail(allele_queue)
    /\ error' =
         IF \E other \in DOMAIN allele_datasets.data :
                normalize_allele_name(other) # normalize_allele_name(next_allele)
         THEN "AttributeError: other_allele.Y"
         ELSE "ValueError: np.vstack"
    /\ cv_pc' = "aborted"
    /\ UNCHANGED <<configs, args, predict, csv_data, config_i, datasets_by_max_ic50, n_loads,
                   allele_datasets, initial_weights, kfold_initial_weights,
                   folds, cv_iter, fold_aucs, fold_accuracies, fold_fits,
                   last_fit, result_dict, all_dataframes, results_file, not_cv_vars>>

\* lines 262, 281, 156-165 when KFold refuses the number of folds
KFoldRaisesError ==
    /\ cv_pc = "alleles"
    /\ allele_queue # <<>>
    /\ ~skipped(next_allele, n_samples_of(next_dataset), args.min_samples_per_allele)
    /\ config.n_pretrain_epochs = 0
    /\ KFoldRaises(n_samples_of(next_dataset), args.cv_folds)
    /\ weights' = set_weights(weights, initial_weights)
    /\ kfold_initial_weights' = weights'
    /\ allele_key' = next_allele
    /\ allele_queue' = Tail(allele_queue)
    /\ fold_aucs' = <<>>
    /\ fold_accuracies' = <<>>
    /\ fold_fits' = <<>>
    /\ error' = "ValueError: KFold"
    /\ cv_pc' = "aborted"
    /\ UNCHANGED <<configs, args, predict, csv_data, config_i, datasets_by_max_ic50, n_loads,
                   allele_datasets, initial_weights, folds, cv_iter,
                   last_fit, result_dict, all_dataframes, results_file, not_cv_vars>>

\* lines 262, 281, 156-165: the weights are reset, the fold loop is entered
EnterFolds ==
    /\ cv_pc = "alleles"
    /\ allele_queue # <<>>
    /\ ~skipped(next_allele, n_samples_of(next_dataset), args.min_samples_per_allele)
    /\ config.n_pretrain_epochs = 0
    /\ ~KFoldRaises(n_samples_of(next_dataset), args.cv_folds)
    /\ weights' = set_weights(weights, initial_weights)
    /\ kfold_initial_weights' = weights'
    /\ allele_key' = next_allele
    /\ allele_queue' = Tail(allele_queue)
    /\ folds' = KFold(n_samples_of(next_dataset), args.cv_folds)
    /\ cv_iter' = 0
    /\ fold_aucs' = <<>>
    /\ fold_accuracies' = <<>>
    /\ fold_fits' = <<>>
    /\ cv_pc' = "folds"
    /\ UNCHANGED <<configs, args, predict, csv_data, config_i, datasets_by_max_ic50, n_loads,
                   allele_datasets, initial_weights, last_fit, result_dict,
                   all_dataframes, results_file, error, not_cv_vars>>

\* lines 166-174: the fold is skipped
SkipFold ==
    /\ cv_pc = "folds"
    /\ cv_iter < Len(folds)
    /\ all_same(dataset.ic50, folds[cv_iter + 1])
    /\ cv_iter' = cv_iter + 1
    /\ UNCHANGED <<cv_pc, configs, args, predict, csv_data, config_i, datasets_by_max_ic50, n_loads,
                   allele_datasets, weights, initial_weights, kfold_initial_weights,
                   allele_queue, allele_key, folds, fold_aucs, fold_accuracies,
                   fold_fits, last_fit, result_dict, all_dataframes, results_file,
                   error, not_cv_vars>>

\* lines 175-204: the weights are reset, the model fitted and scored
ScoreFold ==
    /\ cv_pc = "folds"
    /\ cv_iter < Len(folds)
    /\ ~all_same(dataset.ic50, folds[cv_iter + 1])
    /\ \E pred \in {[t \in folds[cv_iter + 1] |-> predict[dataset.ic50[t]]]} :
         LET at_call == set_weights(weights, kfold_initial_weights)
             this == [kind |-> "fold", allele |-> allele_key, cv_iter |-> cv_iter]
             test_idx == folds[cv_iter + 1]
         IN  /\ weights' = fit(at_call, this)
             /\ last_fit' = [kind |-> "fold", config_idx |-> config_i,
                             allele |-> allele_key, cv_iter |-> cv_iter,
                             weights_at_call |-> at_call,
                             test_idx |-> test_idx, pred |-> pred]
             /\ fold_fits' = Append(fold_fits, cv_iter)
             /\ fold_aucs' = Append(fold_aucs, [score |-> "auc", cv_iter |-> cv_iter])
             /\ fold_accuracies' =
                  Append(fold_accuracies,
                         [score |-> "accuracy", cv_iter |-> cv_iter,
                          value |-> accuracy(dataset.ic50, test_idx, pred)])
    /\ cv_iter' = cv_iter + 1
    /\ UNCHANGED <<cv_pc, configs, args, predict, csv_data, config_i, datasets_by_max_ic50, n_loads,
                   allele_datasets, initial_weights, kfold_initial_weights,
                   allele_queue, allele_key, folds, result_dict, all_dataframes,
                   results_file, error, not_cv_vars>>

\* lines 205, 289-299: the folds are over; the allele's row, if any
AggregateAllele ==
    /\ cv_pc = "folds"
    /\ cv_iter = Len(folds)
    /\ result_dict' = aggregate(result_dict, normalize_allele_name(allele_key),
                                Len(dataset.ic50), fold_aucs, fold_accuracies)
    /\ cv_pc' = "alleles"
    /\ UNCHANGED <<configs, args, predict, csv_data, config_i, datasets_by_max_ic50, n_loads,
                   allele_datasets, weights, initial_weights, kfold_initial_weights,
                   allele_queue, allele_key, folds, cv_iter, fold_aucs,
                   fold_accuracies, fold_fits, last_fit, all_dataframes,
                   results_file, error, not_cv_vars>>

\* lines 300, 363-373: the configuration's table is written and kept
WriteResults ==
    /\ cv_pc = "alleles"
    /\ allele_queue = <<>>
    /\ results_file' = write_results(results_file, result_dict, config_i)
    /\ all_dataframes' = Append(all_dataframes, result_dict)
    /\ config_i' = config_i + 1
    /\ cv_pc' = "main"
    /\ UNCHANGED <<configs, args, predict, csv_data, datasets_by_max_ic50, n_loads,
                   allele_datasets, weights, initial_weights, kfold_initial_weights,
                   allele_queue, allele_key, folds, cv_iter, fold_aucs,
                   fold_accuracies, fold_fits, last_fit, result_dict, error,
                   not_cv_vars>>

\* lines 358-362: the process is interrupted or killed while a configuration
\* is being evaluated; nothing catches it
Interrupted ==
    /\ cv_pc \in {"alleles", "folds"}
    /\ error' = "KeyboardInterrupt"
    /\ cv_pc' = "aborted"
    /\ UNCHANGED <<configs, args, predict, csv_data, config_i, datasets_by_max_ic50, n_loads,
                   allele_datasets, weights, initial_weights, kfold_initial_weights,
                   allele_queue, allele_key, folds, cv_iter, fold_aucs,
                   fold_accuracies, fold_fits, last_fit, result_dict,
                   all_dataframes, results_file, not_cv_vars>>

\* line 384 on: the loop is over
FinishSweep ==
    /\ cv_pc = "main"
    /\ config_i = Len(configs)
    /\ cv_pc' = "done"
    /\ UNCHANGED <<configs, args, predict, csv_data, config_i, datasets_by_max_ic50, n_loads,
                   allele_datasets, weights, initial_weights, kfold_initial_weights,
                   allele_queue, allele_key, folds, cv_iter, fold_aucs,
                   fold_accuracies, fold_fits, last_fit, result_dict,
                   all_dataframes, results_file, error, not_cv_vars>>

NextCV ==
    \/ StartConfig
    \/ SkipAllele
    \/ PretrainRaises
    \/ KFoldRaisesError
    \/ EnterFolds
    \/ SkipFold
    \/ ScoreFold
    \/ AggregateAllele
    \/ WriteResults
    \/ Interrupted
    \/ FinishSweep

(***************************************************************************)
(* SpecCV: one configuration evaluated on every dataset of at most two     *)
(* alleles within the bounds.  An allele whose name fails the name test is *)
(* passed over before its dataset is read, so one dataset stands for it.   *)
(***************************************************************************)
CVData ==
    {d \in UNION {[S -> Datasets] : S \in {T \in SUBSET (ValidNames \cup SkippedNames) :
                                            Cardinality(T) \in {1, 2}}} :
        \A name \in (DOMAIN d) \cap SkippedNames : d[name] = [ic50 |-> <<500, 5000, 500>>]}

InitCV ==
    /\ InitMain
    /\ configs \in [1..1 -> Configs]
    /\ args \in [cv_folds : {2}, min_samples_per_allele : {1, 2}]
    /\ csv_data \in CVData
    /\ predict \in [Ic50Values -> Predictions]
    /\ results_file = <<>>

SpecCV == InitCV /\ [][NextCV]_vars

(***************************************************************************)
(* SpecSweep: sweeps of up to MaxConfigs configurations over datasets in   *)
(* which an allele is scored, has no scoreable fold, or has one sample.    *)
(***************************************************************************)
SweepDatasets ==
    {[ic50 |-> <<500, 5000, 500, 5000>>], [ic50 |-> <<500, 5000, 500>>],
     [ic50 |-> <<500, 500, 500>>], [ic50 |-> <<5000>>]}

\* a line an earlier run of the script left in the results file
StaleLine == [kind |-> "row", config_idx |-> 0, allele_name |-> <<"s", "t", "a", "l", "e">>]

InitSweep ==
    /\ InitMain
    /\ configs \in UNION {[1..n -> Configs] : n \in 1..MaxConfigs}
    /\ args \in [cv_folds : {2}, min_samples_per_allele : {1, 2}]
    /\ csv_data \in UNION {[S -> SweepDatasets] : S \in (SUBSET ValidNames) \ {{}}}
    /\ predict \in [Ic50Values -> Predictions]
    /\ results_file \in {<<>>, <<StaleLine>>}

SpecSweep == InitSweep /\ [][NextCV]_vars

(***************************************************************************)
(* SpecGrid: the grid generated from the lists of the code and from lists  *)
(* with up to MaxRepeatedAxes values repeated.                             *)
(***************************************************************************)
InitGrid ==
    /\ grid_pc = "loop"
    /\ \E names \in SUBSET AxisNames :
          /\ Cardinality(names) <= MaxRepeatedAxes
          /\ \E repeated \in [names -> 1..4] :
                /\ \A name \in names : repeated[name] <= Len(CodeAxes[name])
                /\ axes = AxesWithRepeats(repeated)
    /\ n_yielded = 0
    /\ grid = <<>>
    /\ IdlePrune
    /\ IdleImpute
    /\ IdleRoundTrip
    /\ IdleName
    /\ IdleCV

\* lines 47-49: the next record of the generator, appended if not in the grid
AppendIfNew ==
    /\ grid_pc = "loop"
    /\ n_yielded < n_iterations(axes, 1)
    /\ LET new == hyperparrameters_grid(axes, n_yielded)
       IN  grid' = IF contains(grid, new) THEN grid ELSE Append(grid, new)
    /\ n_yielded' = n_yielded + 1
    /\ UNCHANGED <<grid_pc, axes, not_grid_vars>>

\* lines 51-52: the generator is exhausted, the grid is dumped
DumpGrid ==
    /\ grid_pc = "loop"
    /\ n_yielded = n_iterations(axes, 1)
    /\ grid_pc' = "dumped"
    /\ UNCHANGED <<axes, n_yielded, grid, not_grid_vars>>

NextGrid ==
    \/ AppendIfNew
    \/ DumpGrid

SpecGrid == InitGrid /\ [][NextGrid]_vars

(***************************************************************************)
(* C1.  After pruning with thresholds (p, a), every row of the returned    *)
(* matrix has at least p finite entries and every column at least a.       *)
(***************************************************************************)
PrunedMeetsBothThresholds ==
    prune_pc = "done" =>
        /\ \A i \in 1..prune_result.X.nrows :
             n_observed_in_row(prune_result.X, i)
                >= prune_args.min_observations_per_peptide
        /\ \A j \in 1..prune_result.X.ncols :
             n_observed_in_col(prune_result.X, j)
                >= prune_args.min_observations_per_allele

(***************************************************************************)
(* C2.  The returned matrix and label lists stay synchronized: as many     *)
(* peptide labels as rows, as many allele labels as columns, both lists    *)
(* order-preserving sub-sequences of the input lists, and cell (i, j) of   *)
(* the result is the input cell of peptide_list[i] and allele_list[j].     *)
(***************************************************************************)
IndexOf(labels, l) == CHOOSE k \in 1..Len(labels) : labels[k] = l

IsSubSequence(sub, full) ==
    /\ \A i \in 1..Len(sub) : \E k \in 1..Len(full) : full[k] = sub[i]
    /\ \A i, j \in 1..Len(sub) :
          i < j => IndexOf(full, sub[i]) < IndexOf(full, sub[j])

PruneKeepsLabelsSynchronized ==
    prune_pc = "done" =>
        LET R == prune_result
            A == prune_args
        IN  /\ Len(R.peptide_list) = R.X.nrows
            /\ Len(R.allele_list) = R.X.ncols
            /\ DOMAIN R.X.cell = (1..R.X.nrows) \X (1..R.X.ncols)
            /\ IsSubSequence(R.peptide_list, A.peptide_list)
            /\ IsSubSequence(R.allele_list, A.allele_list)
            /\ \A i \in 1..R.X.nrows, j \in 1..R.X.ncols :
                 R.X.cell[<<i, j>>] =
                    A.X.cell[<<IndexOf(A.peptide_list, R.peptide_list[i]),
                               IndexOf(A.allele_list, R.allele_list[j])>>]

\* a peptide row and an allele column were dropped, and cells remain
PruneDroppedRowAndColumn ==
    /\ prune_pc = "done"
    /\ prune_result.X.nrows > 0
    /\ prune_result.X.ncols > 0
    /\ prune_result.X.nrows < prune_args.X.nrows
    /\ prune_result.X.ncols < prune_args.X.ncols
    /\ prune_result.peptide_list[1] # prune_args.peptide_list[1]
    /\ prune_result.allele_list[1] # prune_args.allele_list[1]

(***************************************************************************)
(* C3.  When the pruned matrix holds no NaN, imputer.complete is never     *)
(* invoked, whatever the imputer (failing or absent included), the call    *)
(* does not fail, and the datasets returned hold exactly the (allele,      *)
(* peptide, affinity) entries of the pruned matrix.  When it holds a NaN,  *)
(* complete is invoked exactly once, on the pruned matrix (an absent       *)
(* imputer has no complete to invoke: the attribute lookup raises).        *)
(***************************************************************************)
ImputerSkippedIffNoNaN ==
    /\ Len(complete_calls) <= 1
    /\ (imp_pc \in {"completed", "done", "error"} /\ n_nan(X_incomplete.X) = 0) =>
          /\ complete_calls = <<>>
          /\ imp_pc # "error"
          /\ X_complete = X_incomplete.X
    /\ (imp_pc = "done" /\ n_nan(X_incomplete.X) = 0) =>
          /\ DatasetEntries(imputed_datasets) = MatrixEntries(X_incomplete)
          /\ \A al \in DOMAIN imputed_datasets :
                Len(imputed_datasets[al].original_peptides) = X_incomplete.X.nrows
    /\ (imp_pc \in {"completed", "done", "error"} /\ n_nan(X_incomplete.X) # 0
            /\ imputer # "absent") =>
          complete_calls = <<X_incomplete.X>>

\* a fully observed 2 x 2 matrix went through with no imputer at all
FullMatrixPassedWithoutImputer ==
    /\ imp_pc = "done"
    /\ imputer = "absent"
    /\ n_nan(X_incomplete.X) = 0
    /\ X_incomplete.X.nrows = 2
    /\ X_incomplete.X.ncols = 2
    /\ Cardinality(DatasetEntries(imputed_datasets)) = 4

(***************************************************************************)
(* C4.  In the sparse table, the affinity recorded for a (peptide, allele) *)
(* pair is the one of the first occurrence of the peptide in that allele's *)
(* dataset; later entries of the same allele never overwrite it, and the   *)
(* same peptide under another allele keeps its own entry.                  *)
(***************************************************************************)
FirstOccurrence(allele_data, peptide) ==
    CHOOSE k \in 1..Len(allele_data.original_peptides) :
        /\ allele_data.original_peptides[k] = peptide
        /\ \A j \in 1..(k - 1) : allele_data.original_peptides[j] # peptide

FirstOccurrenceWins ==
    imp_pc # "start" =>
        Entries(peptide_to_allele_to_affinity_dict) =
            UNION {{<<allele_data_dict[al].original_peptides[k], al,
                      allele_data_dict[al].Y[
                        FirstOccurrence(allele_data_dict[al],
                                        allele_data_dict[al].original_peptides[k])]>> :
                        k \in 1..Len(allele_data_dict[al].original_peptides)}
                   : al \in DOMAIN allele_data_dict}

\* one allele lists a peptide twice with different affinities, and another
\* allele lists the same peptide with the affinity the first allele dropped
ConflictingDuplicateSeen ==
    /\ imp_pc = "pruned"
    /\ \E a1, a2 \in DOMAIN allele_data_dict :
          /\ a1 # a2
          /\ Len(allele_data_dict[a1].Y) = 2
          /\ allele_data_dict[a1].original_peptides[1] =
                allele_data_dict[a1].original_peptides[2]
          /\ allele_data_dict[a1].Y[1] # allele_data_dict[a1].Y[2]
          /\ Len(allele_data_dict[a2].Y) >= 1
          /\ allele_data_dict[a2].original_peptides[1] =
                allele_data_dict[a1].original_peptides[1]
          /\ allele_data_dict[a2].Y[1] = allele_data_dict[a1].Y[2]

(***************************************************************************)
(* C5.  Round trip: a sparse table materialized as a dense matrix and      *)
(* converted back by dense_pMHC_matrix_to_nested_dict yields exactly the   *)
(* original (allele, peptide, affinity) entries, and no NaN cell appears   *)
(* in the result.                                                          *)
(***************************************************************************)
RoundTripYieldsOriginalEntries ==
    rt_pc = "done" =>
        /\ Entries(rt_nested) =
                {<<e[2], e[1], e[3]>> : e \in Entries(rt_table)}
        /\ \A e \in Entries(rt_nested) : e[3] # NaN
        /\ \A al \in DOMAIN rt_nested : DOMAIN rt_nested[al] # {}

\* the matrix of the round trip had unobserved cells and three rows
RoundTripWithMissingCells ==
    /\ rt_pc = "done"
    /\ rt_dense.X.nrows = 3
    /\ rt_dense.X.ncols = 2
    /\ n_nan(rt_dense.X) = 2
    /\ Cardinality(Entries(rt_nested)) = 4

(***************************************************************************)
(* C7 as stated.  For a name that is no spelling of a method name the call *)
(* raises an error whose message contains the name string the caller gave, *)
(* and for a spelling of a method name it does not raise.                  *)
(***************************************************************************)
MessageNamesCallersString ==
    name_pc = "done" =>
        IF name_base \in MethodNames
        THEN ~name_result.raised
        ELSE /\ name_result.raised
             /\ Contains(name_result.message, imputation_method_name)

(***************************************************************************)
(* C7 as amended.  For a name that is no spelling of a method name the     *)
(* call raises an error whose message contains the trimmed, lower-cased    *)
(* form of the name, and returns nothing; for every spelling of a method   *)
(* name (letter case and surrounding whitespace aside) it does not raise.  *)
(***************************************************************************)
MessageNamesNormalizedString ==
    name_pc = "done" =>
        IF name_base \in MethodNames
        THEN ~name_result.raised /\ name_result.class # ""
        ELSE /\ name_result.raised
             /\ name_result.class = ""
             /\ Contains(name_result.message, name_base)
             /\ Len(name_result.message) = Len(InvalidMethodMessage) + Len(name_base)

\* " SOFTIMPUTE\t" was accepted
PaddedUpperCaseNameAccepted ==
    /\ name_pc = "done"
    /\ Len(name_base) = 10
    /\ Len(imputation_method_name) = 12
    /\ \A i \in 2..11 : imputation_method_name[i] \in
            {UpperCase[k] : k \in 1..Len(UpperCase)}
    /\ name_result.class = "SoftImpute"


(***************************************************************************)
(* C6.  When the sweep aborts while configuration i is being evaluated,    *)
(* i > 0, the results file is one header line followed by the result rows  *)
(* of configurations 0..i-1, in configuration order, and nothing else.     *)
(***************************************************************************)
RECURSIVE RowsOfConfigs(_, _)
RowsOfConfigs(tables, first_idx) ==
    IF tables = <<>> THEN <<>>
    ELSE [r \in 1..Len(Head(tables)["allele_name"]) |->
            [kind |-> "row", config_idx |-> first_idx,
             allele_name |-> Head(tables)["allele_name"][r]]]
         \o RowsOfConfigs(Tail(tables), first_idx + 1)

AbortLeavesOneHeaderThenRows ==
    (cv_pc = "aborted" /\ config_i > 0) =>
        /\ Len(all_dataframes) = config_i
        /\ results_file = <<HeaderLine>> \o RowsOfConfigs(all_dataframes, 0)

(***************************************************************************)
(* C8.  In the fold loop of an allele, model.fit was called and a score    *)
(* appended for exactly the folds done so far whose held-out labels        *)
(* (ic50 <= 500) hold both a positive and a negative; fold_aucs and        *)
(* fold_accuracies have equal length, the number of such folds, at most    *)
(* cv_folds; no error is raised.                                           *)
(***************************************************************************)
has_both_labels(ic50, test_idx) ==
    /\ \E t \in test_idx : ic50[t] <= 500
    /\ \E t \in test_idx : ic50[t] > 500

FoldScoredIffMixedLabels ==
    cv_pc = "folds" =>
        LET mixed == {k \in 0..(cv_iter - 1) : has_both_labels(dataset.ic50, folds[k + 1])}
        IN  /\ Len(fold_aucs) = Len(fold_accuracies)
            /\ Len(fold_aucs) = Cardinality(mixed)
            /\ {fold_aucs[j].cv_iter : j \in 1..Len(fold_aucs)} = mixed
            /\ {fold_accuracies[j].cv_iter : j \in 1..Len(fold_accuracies)} = mixed
            /\ Len(fold_fits) = Cardinality(mixed)
            /\ {fold_fits[j] : j \in 1..Len(fold_fits)} = mixed
            /\ Len(fold_aucs) <= args.cv_folds
            /\ error = "none"

\* the folds of an allele are over: one was scored, one held only
\* non-binders and was skipped
OneFoldScoredOneSkipped ==
    /\ cv_pc = "folds"
    /\ cv_iter = Len(folds)
    /\ Len(fold_aucs) = 1
    /\ \E k \in 1..Len(folds) : \A t \in folds[k] : dataset.ic50[t] > 500

(***************************************************************************)
(* C9.  At every per-fold call of model.fit the weights are those captured *)
(* right after the model of that configuration was built, with no training *)
(* of an earlier fold, allele or configuration in them; so are the weights *)
(* captured at the start of an allele's fold loop, and the weights when an *)
(* allele's pretraining or fold loop starts.                               *)
(***************************************************************************)
FitStartsFromInitialWeights ==
    /\ last_fit.kind = "fold" =>
            last_fit.weights_at_call = [config_idx |-> last_fit.config_idx, trained |-> <<>>]
    /\ cv_pc = "folds" =>
            kfold_initial_weights = [config_idx |-> config_i, trained |-> <<>>]
    /\ (cv_pc = "folds" /\ cv_iter = 0) =>
            weights = [config_idx |-> config_i, trained |-> <<>>]
    /\ (cv_pc = "aborted" /\ error # "KeyboardInterrupt") =>
            weights = [config_idx |-> config_i, trained |-> <<>>]

\* a second fold is fitted, after an earlier allele and an earlier
\* configuration were trained
SecondFoldFittedAfterEarlierTraining ==
    /\ cv_pc = "folds"
    /\ fold_fits = <<0, 1>>
    /\ last_fit.cv_iter = 1
    /\ n_rows_of(result_dict) = 1
    /\ config_i = 1
    /\ n_rows_of(all_dataframes[1]) = 2

(***************************************************************************)
(* C10.  The twelve result columns always have the same length; between   *)
(* alleles, the rows are those of the alleles visited so far that passed   *)
(* the name and sample-count tests and had at least one fold with both     *)
(* labels, one row each, in the sorted order of the alleles' names in the  *)
(* datasets; an allele without such a fold adds no row and no error.       *)
(***************************************************************************)
has_scoreable_fold(ic50, n_folds) ==
    \E f \in 1..n_folds : has_both_labels(ic50, KFold(Len(ic50), n_folds)[f])

RowExpected(name) ==
    /\ ~isdigit(name)
    /\ Len(name) >= 5
    /\ Len(allele_datasets.data[name].ic50) >= args.min_samples_per_allele
    /\ has_scoreable_fold(allele_datasets.data[name].ic50, args.cv_folds)

raw_enumeration(lists) ==
    [k \in 0..(n_iterations(lists, 1) - 1) |-> hyperparrameters_grid(lists, k)]

\* the first iteration that yields the record
first_yield(raw, record) ==
    CHOOSE k \in DOMAIN raw :
        /\ raw[k] = record
        /\ \A j \in DOMAIN raw : raw[j] = record => k <= j

GridIsEnumerationWithoutRepeats ==
    grid_pc = "dumped" =>
        \A raw \in {raw_enumeration(axes)} :
            /\ \A a, b \in 1..Len(grid) : a # b => grid[a] # grid[b]
            /\ \A k \in DOMAIN raw : \E a \in 1..Len(grid) : grid[a] = raw[k]
            /\ \A a \in 1..Len(grid) : \E k \in DOMAIN raw : raw[k] = grid[a]
            /\ \A firsts \in {[a \in 1..Len(grid) |-> first_yield(raw, grid[a])]} :
                    \A a \in 1..(Len(grid) - 1) : firsts[a] < firsts[a + 1]

\* lists with repeated values were enumerated: records came again and were
\* left out
RepeatedRecordsLeftOut ==
    /\ grid_pc = "dumped"
    /\ Len(grid) = 128
    /\ n_yielded > 2 * Len(grid)

(***************************************************************************)
(* C12.  The accuracy appended for a scored fold is the fraction of the    *)
(* held-out samples whose label ic50 <= 500 equals the predicted label     *)
(* max_ic50 ** (1 - pred) <= 500, max_ic50 being that of the configuration *)
(* evaluated.                                                              *)
(***************************************************************************)
AccuracyUsesConfigMaxIc50 ==
    (cv_pc = "folds" /\ fold_fits # <<>> /\ last_fit.kind = "fold") =>
        LET scored == fold_accuracies[Len(fold_accuracies)]
            max_ic50 == configs[last_fit.config_idx + 1].max_ic50
            agreeing == {t \in last_fit.test_idx :
                            (dataset.ic50[t] <= 500)
                            = ((10 - last_fit.pred[t]) * log10_thousandths(max_ic50)
                                   <= 10 * log10_thousandths(500))}
        IN  /\ scored.cv_iter = last_fit.cv_iter
            /\ scored.value.of = Cardinality(last_fit.test_idx)
            /\ scored.value.equal = Cardinality(agreeing)

(***************************************************************************)
(* C13.  The datasets are loaded once for each distinct max_ic50 among the *)
(* configurations started, at the first configuration with that value;     *)
(* the cache holds the object of that load for good, and a configuration   *)
(* is evaluated on the object cached for its max_ic50.                     *)
(***************************************************************************)
n_started == IF cv_pc = "main" \/ cv_pc = "done" THEN config_i ELSE config_i + 1

\* the loads up to and including the first configuration with the value
load_number(max_ic50) ==
    LET first == CHOOSE k \in 1..n_started :
                    /\ configs[k].max_ic50 = max_ic50
                    /\ \A j \in 1..n_started : configs[j].max_ic50 = max_ic50 => k <= j
    IN  Cardinality({configs[j].max_ic50 : j \in 1..first})

DatasetsLoadedOncePerMaxIc50 ==
    cv_pc # "idle" =>
        LET seen == {configs[k].max_ic50 : k \in 1..n_started}
        IN  /\ DOMAIN datasets_by_max_ic50 = seen
            /\ n_loads = Cardinality(seen)
            /\ \A c \in seen : datasets_by_max_ic50[c].id = load_number(c)
            /\ cv_pc \in {"alleles", "folds"} =>
                    allele_datasets = datasets_by_max_ic50[config.max_ic50]

\* the third configuration is evaluated on the datasets loaded for the first,
\* those of the second having been loaded in between
CachedDatasetsUsedAgain ==
    /\ cv_pc = "alleles"
    /\ config_i = 2
    /\ configs[3].max_ic50 = configs[1].max_ic50
    /\ configs[2].max_ic50 # configs[1].max_ic50
    /\ allele_datasets.id = 1
    /\ n_loads = 2

(***************************************************************************)
(* C14.  With n_pretrain_epochs > 0, an allele's fold loop starts from     *)
(* weights pretrained once, after the reset, on the samples of all other   *)
(* alleles and of them only, inputs and labels from the same alleles; the  *)
(* pooling does not fail.  With n_pretrain_epochs = 0 the fold loop starts *)
(* from weights not pretrained.                                            *)
(***************************************************************************)
other_alleles(name) ==
    {other \in DOMAIN allele_datasets.data :
        normalize_allele_name(other) # normalize_allele_name(name)}

PretrainedOnceOnOtherAlleles ==
    /\ (cv_pc = "folds" /\ config.n_pretrain_epochs > 0) =>
            kfold_initial_weights =
                [config_idx |-> config_i,
                 trained |-> <<[kind |-> "pretrain", allele |-> allele_key,
                                X_other_alleles |-> other_alleles(allele_key),
                                Y_other_alleles |-> other_alleles(allele_key)]>>]
    /\ (cv_pc = "folds" /\ config.n_pretrain_epochs = 0) =>
            kfold_initial_weights = [config_idx |-> config_i, trained |-> <<>>]
    /\ error \notin {"AttributeError: other_allele.Y", "ValueError: np.vstack"}

=============================================================================
